---- MODULE Spec2Model ----
(***************************************************************************)
(* SpeechTide: the hotkey activation state machine (hotkey_manager.py),    *)
(* the recording controller (menu_bar.py) with its worker threads, and the *)
(* audio recorder (audio_recorder.py) the controller drives.               *)
(***************************************************************************)
EXTENDS Integers, Sequences, FiniteSets, TLC

(***************************************************************************)
(* Bounds of the model.                                                    *)
(***************************************************************************)
\* key events delivered to the listener callbacks in one run
MaxEvents == 3
\* distinct thread idents the OS hands to listener threads
MaxIdent == 2
\* activations (hotkey triggers, menu clicks, direct start/stop calls) in one run
MaxActivations == 4
\* _handle_hotkey callback threads alive at the same time
MaxHkThreads == 2
\* hardware buffers captured in one recording
MaxChunks == 1
\* hardware buffers delivered in one recording of a recorder driven directly,
\* and buffers delivered to it while it does not record
MaxBuffers == 2
\* hotkey presses in a run that follows the callback and worker threads
MaxPresses == 2
\* realtime sessions started in one run
MaxSessions == 2
\* messages the realtime connections deliver in one run
MaxMessages == 3
\* chunks passed to send_audio in one run
MaxFeeds == 2
\* calls of start_session, stop_session and stop_realtime_session in one run
MaxRtCalls == 3

(***************************************************************************)
(* Program constants.                                                      *)
(***************************************************************************)
\* hold_threshold = 0.1, kept as the fraction HoldThresholdNum/HoldThresholdDen
HoldThresholdNum == 1
HoldThresholdDen == 10

\* self.listener is None: no listener thread, hence no thread ident
NoListener == 0

\* self.listener is a Listener whose thread never started
DeadListener == -1

\* HotkeyManager.KEY_MAPPING, restricted to two of its names
KeyNames == {"right_cmd", "right_alt"}
KEY_MAPPING ==
    [n \in KeyNames |->
        CASE n = "right_cmd" -> "cmd_r"
          [] n = "right_alt" -> "alt_r"]

\* the key objects the listener can report
Keys == {"cmd_r", "alt_r"}

Idents == 1..MaxIdent
Modes == {"click", "hold"}

\* HotkeyManager._get_key_object for the names of KEY_MAPPING
GetKeyObject(key_name) == KEY_MAPPING[key_name]

VARIABLES
    \* ---- HotkeyManager ----
    is_running,         \* HotkeyManager.is_running
    listener,           \* HotkeyManager.listener: None or the ident of its thread
    pressed_keys,       \* HotkeyManager.pressed_keys
    interaction_mode,   \* HotkeyManager.interaction_mode
    key_pressed_time,   \* HotkeyManager.key_pressed_time: dict key name -> press time
    primary_key,        \* HotkeyManager.primary_key
    primary_key_name,   \* HotkeyManager.primary_key_name
    events,             \* key events received by the callbacks, in order
    start_raised,       \* the last call of HotkeyManager.start raised to its caller
    dispatched,         \* on_hotkey threads started by _trigger_hotkey, in order
    \* ---- SpeechTideApp ----
    is_recording,               \* SpeechTideApp.is_recording
    is_transcribing,            \* SpeechTideApp.is_transcribing
    pending_start_recording,    \* SpeechTideApp._pending_start_recording
    pending_stop_recording,     \* SpeechTideApp._pending_stop_recording
    pending_set_transcribing,   \* SpeechTideApp._pending_set_transcribing
    pending_clear_transcribing, \* SpeechTideApp._pending_clear_transcribing
    api_key_valid,      \* ConfigManager.validate_api_key()
    main,               \* the main thread: handler it runs and position in it
    hk_threads,         \* position of each running _handle_hotkey callback thread
    procs,              \* the _process_audio threads started so far, in order
    counts,             \* calls the controller made to its collaborators
    activations,        \* activations delivered so far
    overtaken,          \* the pending start / stop request was set before is_recording last changed
    \* ---- AudioRecorder ----
    rec_is_recording,   \* AudioRecorder.is_recording
    audio_data,         \* AudioRecorder.audio_data
    audio_stream,       \* AudioRecorder.audio_stream
    rec_warnings,       \* warnings AudioRecorder logged, by message
    rec_returned,       \* what the last call of stop_recording returned
    current_volume,     \* AudioRecorder.current_volume
    volume_callback,    \* AudioRecorder.volume_callback is not None
    volume_calls,       \* calls of the volume callback so far
    dropped,            \* buffers delivered while the recorder did not record
    \* ---- RealtimeSessionManager and the realtime part of OpenAIClient ----
    rt_is_active,       \* RealtimeSessionManager.is_active
    callbacks_set,      \* transcript_callback and error_callback are not None
    current_transcript, \* RealtimeSessionManager.current_transcript
    rt_loop,            \* RealtimeSessionManager.loop: None or the loop of a session thread
    rt_threads,         \* the _run_session_loop threads started so far, in order
    realtime_connected, \* OpenAIClient.realtime_connected
    realtime_websocket, \* OpenAIClient.realtime_websocket: None or a session's connection
    received,           \* messages the connections delivered, in order
    callbacks,          \* calls of the caller's on_transcript / on_error, in order
    fed,                \* chunks passed to send_audio, in order
    rt_counts           \* calls made on the manager and the client, errors logged

hkVars == <<is_running, listener, pressed_keys, interaction_mode,
            key_pressed_time, primary_key, primary_key_name, events,
            start_raised, dispatched>>

appVars == <<is_recording, is_transcribing, pending_start_recording,
             pending_stop_recording, pending_set_transcribing,
             pending_clear_transcribing, api_key_valid, main, hk_threads,
             procs, counts, activations, overtaken>>

volVars == <<current_volume, volume_callback, volume_calls, dropped>>

recVars == <<rec_is_recording, audio_data, audio_stream, rec_warnings,
             rec_returned, volVars>>

rtVars == <<rt_is_active, callbacks_set, current_transcript, rt_loop,
            rt_threads, realtime_connected, realtime_websocket, received,
            callbacks, fed, rt_counts>>

vars == <<hkVars, appVars, recVars, rtVars>>

(***************************************************************************)
(* HotkeyManager                                                           *)
(***************************************************************************)
\* d[k] = v on a Python dict
DictSet(d, k, v) == [x \in DOMAIN d \cup {k} |-> IF x = k THEN v ELSE d[x]]
\* del d[k] on a Python dict
DictDel(d, k) == [x \in DOMAIN d \ {k} |-> d[x]]

\* HotkeyManager.__init__
HkInit ==
    /\ primary_key_name \in KeyNames
    /\ primary_key = GetKeyObject(primary_key_name)
    /\ is_running = FALSE
    /\ pressed_keys = {}
    /\ listener = NoListener
    /\ interaction_mode = "click"
    /\ key_pressed_time = <<>>
    /\ events = <<>>
    /\ start_raised = FALSE
    /\ dispatched = <<>>

\* _trigger_hotkey: one on_hotkey callback thread is started for key_name
TriggerHotkey(key_name, ev, on) ==
    dispatched' = Append(dispatched, [ev |-> ev, key |-> key_name, on |-> on])

\* a threshold test that every hold passes
HoldLongEnough_Always(hold_duration) == TRUE

\* hold_duration >= self.hold_threshold
HoldLongEnough(hold_duration) ==
    hold_duration * HoldThresholdDen >= HoldThresholdNum

\* _handle_hotkey_release with the mode test against the wrong mode
ReleaseTriggers_WrongMode(mode, hold_duration) ==
    /\ mode = "click"
    /\ hold_duration * HoldThresholdDen >= HoldThresholdNum

\* the condition of _handle_hotkey_release under which it triggers
ReleaseTriggers(mode, hold_duration) ==
    /\ mode = "hold"
    /\ HoldLongEnough(hold_duration)

\* _handle_hotkey_press triggering in the other mode
PressTriggers_WrongMode(mode) == mode = "hold"

\* the condition of _handle_hotkey_press under which it triggers
PressTriggers(mode) == mode = "click"

\* HotkeyManager.start, the listener thread starts with a fresh ident
Start ==
    /\ ~is_running
    /\ is_running' = TRUE
    /\ \E id \in Idents : listener' = id
    /\ start_raised' = FALSE
    /\ UNCHANGED <<pressed_keys, interaction_mode, key_pressed_time,
                   primary_key, primary_key_name, events, dispatched>>
    /\ UNCHANGED <<appVars, recVars, rtVars>>

\* an except clause that leaves is_running as line 88 set it
RunningAfterStartError_Kept == TRUE

\* line 101: the value the except clause of start stores in is_running
RunningAfterStartError == FALSE

\* HotkeyManager.start when the listener cannot be established: Listener()
\* raises and self.listener keeps its value, or listener.start() raises and
\* self.listener holds a listener that never ran; the except clause resets
\* is_running and re-raises
StartFail(where) ==
    /\ ~is_running
    /\ is_running' = RunningAfterStartError
    /\ listener' = IF where = "Listener" THEN listener ELSE DeadListener
    /\ start_raised' = TRUE
    /\ UNCHANGED <<pressed_keys, interaction_mode, key_pressed_time,
                   primary_key, primary_key_name, events, dispatched>>
    /\ UNCHANGED <<appVars, recVars, rtVars>>

\* HotkeyManager.stop
Stop ==
    /\ is_running
    /\ is_running' = FALSE
    /\ listener' = NoListener
    /\ pressed_keys' = {}
    /\ key_pressed_time' = <<>>
    /\ UNCHANGED <<interaction_mode, primary_key, primary_key_name,
                   events, dispatched>>
    /\ UNCHANGED start_raised
    /\ UNCHANGED <<appVars, recVars, rtVars>>

\* HotkeyManager.stop when listener.stop() raises: the except clause logs,
\* and neither the listener handle nor the two collections are cleared
StopFail ==
    /\ is_running
    /\ listener # NoListener
    /\ is_running' = FALSE
    /\ UNCHANGED <<listener, pressed_keys, interaction_mode, key_pressed_time,
                   primary_key, primary_key_name, events, dispatched>>
    /\ UNCHANGED start_raised
    /\ UNCHANGED <<appVars, recVars, rtVars>>

\* HotkeyManager.set_interaction_mode
SetInteractionMode(mode) ==
    /\ IF mode \in {"click", "hold"}
          THEN interaction_mode' = mode
          ELSE UNCHANGED interaction_mode
    /\ UNCHANGED <<is_running, listener, pressed_keys, key_pressed_time,
                   primary_key, primary_key_name, events, dispatched>>
    /\ UNCHANGED start_raised
    /\ UNCHANGED <<appVars, recVars, rtVars>>

\* _on_key_press with _handle_hotkey_press; current_time is the ident of the
\* thread that runs the callback, which is the listener thread
OnKeyPress(key) ==
    /\ listener \in Idents
    /\ Len(events) < MaxEvents
    /\ LET current_time == listener
           ev == Len(events) + 1
           hit == key = primary_key
       IN /\ events' = Append(events, [kind |-> "press", key |-> key,
                                       configured |-> hit,
                                       mode |-> interaction_mode,
                                       timed |-> FALSE, held |-> 0])
          /\ IF hit
                THEN /\ key_pressed_time' =
                            DictSet(key_pressed_time, primary_key_name, current_time)
                     /\ IF PressTriggers(interaction_mode)
                           THEN TriggerHotkey(primary_key_name, ev, "press")
                           ELSE UNCHANGED dispatched
                ELSE UNCHANGED <<key_pressed_time, dispatched>>
          /\ pressed_keys' = pressed_keys \cup {key}
    /\ UNCHANGED <<is_running, listener, interaction_mode,
                   primary_key, primary_key_name>>
    /\ UNCHANGED start_raised
    /\ UNCHANGED <<appVars, recVars, rtVars>>

\* _on_key_release with _handle_hotkey_release
OnKeyRelease(key) ==
    /\ listener \in Idents
    /\ Len(events) < MaxEvents
    /\ LET current_time == listener
           ev == Len(events) + 1
           hit == key = primary_key
           known == primary_key_name \in DOMAIN key_pressed_time
           press_time == key_pressed_time[primary_key_name]
           hold_duration == current_time - press_time
       IN /\ events' = Append(events, [kind |-> "release", key |-> key,
                                       configured |-> hit,
                                       mode |-> interaction_mode,
                                       timed |-> hit /\ known,
                                       held |-> IF hit /\ known
                                                   THEN hold_duration
                                                   ELSE 0])
          /\ IF hit /\ known
                THEN /\ IF ReleaseTriggers(interaction_mode, hold_duration)
                           THEN TriggerHotkey(primary_key_name, ev, "release")
                           ELSE UNCHANGED dispatched
                     /\ key_pressed_time' =
                            DictDel(key_pressed_time, primary_key_name)
                ELSE UNCHANGED <<key_pressed_time, dispatched>>
          /\ pressed_keys' = pressed_keys \ {key}
    /\ UNCHANGED <<is_running, listener, interaction_mode,
                   primary_key, primary_key_name>>
    /\ UNCHANGED start_raised
    /\ UNCHANGED <<appVars, recVars, rtVars>>

\* the names update_hotkeys is called with: those of KEY_MAPPING and one
\* that is neither in it nor a single character
UpdateNames == KeyNames \cup {"unknown_key"}

\* _get_key_object, line 71: the name is recognised
KnownKeyName(key_name) == key_name \in DOMAIN KEY_MAPPING

\* HotkeyManager.update_hotkeys: a running manager is stopped first; the
\* new key is looked up, and an unknown name raises ValueError out of the
\* call before anything is assigned and before the manager is started again
UpdateHotkeys(new_key) ==
    LET was_running == is_running
    IN /\ IF KnownKeyName(new_key)
             THEN /\ primary_key' = GetKeyObject(new_key)
                  /\ primary_key_name' = new_key
                  /\ is_running' = was_running
                  /\ IF was_running
                        THEN \E id \in Idents : listener' = id
                        ELSE UNCHANGED listener
             ELSE /\ UNCHANGED <<primary_key, primary_key_name>>
                  /\ is_running' = FALSE
                  /\ listener' = IF was_running THEN NoListener ELSE listener
       /\ IF was_running
             THEN pressed_keys' = {} /\ key_pressed_time' = <<>>
             ELSE UNCHANGED <<pressed_keys, key_pressed_time>>
       /\ UNCHANGED <<interaction_mode, events, dispatched, start_raised>>
       /\ UNCHANGED <<appVars, recVars, rtVars>>

KeyPressEvent == \E key \in Keys : OnKeyPress(key)
KeyReleaseEvent == \E key \in Keys : OnKeyRelease(key)
ModeChange == \E mode \in Modes \ {interaction_mode} : SetInteractionMode(mode)

HkNext ==
    \/ Start
    \/ \E where \in {"Listener", "start"} : StartFail(where)
    \/ Stop
    \/ StopFail
    \/ ModeChange
    \/ KeyPressEvent
    \/ KeyReleaseEvent

\* the manager with its key reassigned while it runs
UpdateNext ==
    \/ HkNext
    \/ \E new_key \in UpdateNames : UpdateHotkeys(new_key)

(***************************************************************************)
(* AudioRecorder, as the controller calls it                               *)
(***************************************************************************)
NoStream == "None"
EmptyBytes == <<>>

\* audio_config: chunk_size frames per hardware buffer (1024 in the default
\* configuration, 2 here), one channel, 16000 frames per second
ChunkSize == 2
Channels == 1
SampleRate == 16000
\* pyaudio.get_sample_size(paInt16)
SampleWidth == 2
FrameSize == Channels * SampleWidth

\* the hardware buffers pyaudio delivers: ChunkSize frames of little-endian
\* int16 samples; silence, the samples 1 and 32767, and twice -32768
HardwareBuffers == { <<0, 0, 0, 0>>, <<1, 0, 255, 127>>, <<0, 128, 0, 128>> }

\* the buffer the microphone delivers to the running application
Chunks == { <<1, 0, 255, 127>> }

\* b''.join(self.audio_data)
RECURSIVE JoinChunks(_)
JoinChunks(chunks) ==
    IF chunks = <<>> THEN <<>> ELSE Head(chunks) \o JoinChunks(Tail(chunks))

\* the header wave writes for the parameters set at lines 189-191, with the
\* number of frames it derives from the bytes written
WavHeader(audio_bytes) ==
    <<Channels, SampleWidth, SampleRate, Len(audio_bytes) \div FrameSize>>

\* _create_wav_data: the header followed by the frames
CreateWavData(chunks) ==
    LET audio_bytes == JoinChunks(chunks)
    IN WavHeader(audio_bytes) \o audio_bytes

\* reading the container back: the declared parameters and the declared
\* number of whole frames of data
WavChannels(wav) == wav[1]
WavSampleWidth(wav) == wav[2]
WavFrameRate(wav) == wav[3]
WavFrames(wav) == wav[4]
ReadFrames(wav) ==
    LET first == Len(WavHeader(<<>>)) + 1
    IN SubSeq(wav, first,
              first - 1 + WavFrames(wav) * WavChannels(wav) * WavSampleWidth(wav))

\* np.frombuffer(in_data, dtype=np.int16): one little-endian sample
Int16(lo, hi) ==
    LET u == lo + 256 * hi IN IF u >= 32768 THEN u - 65536 ELSE u

\* np.frombuffer(in_data, dtype=np.int16)
FromBuffer(in_data) ==
    [i \in 1..(Len(in_data) \div 2) |-> Int16(in_data[2 * i - 1], in_data[2 * i])]

RECURSIVE SumSeq(_)
SumSeq(q) == IF q = <<>> THEN 0 ELSE Head(q) + SumSeq(Tail(q))

\* np.mean(audio_array.astype(np.float64) ** 2), rounded down to an integer;
\* the quotients are summed apart from the remainders to stay within 32 bits
MeanSquare(audio_array) ==
    LET n == Len(audio_array)
        sq == [i \in 1..n |-> audio_array[i] * audio_array[i]]
    IN SumSeq([i \in 1..n |-> sq[i] \div n])
          + (SumSeq([i \in 1..n |-> sq[i] % n]) \div n)

\* a normalisation by the largest positive sample
FullScale_Positive == 32768 - 1

\* line 162: the divisor of the normalisation
FullScale == 32768

\* a volume sqrt(mean_val) / full_scale, kept as its two parts
VolumeOf(mean_val) == [mean_val |-> mean_val, full_scale |-> FullScale]

\* lines 153-164: the volume of a buffer
Volume(in_data) ==
    LET audio_array == FromBuffer(in_data)
    IN IF Len(audio_array) > 0
          THEN LET mean_val == MeanSquare(audio_array)
               IN IF mean_val >= 0 THEN VolumeOf(mean_val) ELSE VolumeOf(0)
          ELSE VolumeOf(0)

\* 0.0 <= volume <= 1.0
InUnitInterval(volume) ==
    /\ volume.mean_val >= 0
    /\ volume.mean_val <= volume.full_scale * volume.full_scale

\* a callback that puts the newest buffer first
StoreChunk_First(data, in_data) == <<in_data>> \o data

\* line 150: self.audio_data.append(in_data)
StoreChunk(data, in_data) == Append(data, in_data)

\* the early return of AudioRecorder.start_recording
RecStartIgnored == rec_is_recording

\* AudioRecorder.start_recording returning normally
RecStartOk ==
    IF RecStartIgnored
       THEN /\ rec_warnings' = [rec_warnings EXCEPT !.in_progress = @ + 1]
            /\ UNCHANGED <<rec_is_recording, audio_data, audio_stream,
                           rec_returned, volVars>>
       ELSE /\ audio_data' = <<>>
            /\ rec_is_recording' = TRUE
            /\ audio_stream' = "active"
            /\ UNCHANGED <<rec_warnings, rec_returned, volVars>>

\* AudioRecorder.start_recording raising: in pyaudio open() (no stream is
\* stored) or in start_stream() (the opened stream is stored)
RecStartRaises(where) ==
    /\ ~RecStartIgnored
    /\ audio_data' = <<>>
    /\ rec_is_recording' = FALSE
    /\ audio_stream' = IF where = "open" THEN audio_stream ELSE "open"
    /\ UNCHANGED <<rec_warnings, rec_returned, volVars>>

\* a stop_recording that builds the WAV data whatever was captured
RecStopOkResult_AlwaysWav == CreateWavData(audio_data)

\* the bytes stop_recording returns after a clean stop
RecStopOkResult ==
    IF rec_is_recording /\ audio_data # <<>>
       THEN CreateWavData(audio_data)
       ELSE EmptyBytes

\* AudioRecorder.stop_recording returning after a clean stop
RecStopOk ==
    /\ rec_returned' = RecStopOkResult
    /\ UNCHANGED volVars
    /\ IF ~rec_is_recording
          THEN /\ rec_warnings' = [rec_warnings EXCEPT !.no_recording = @ + 1]
               /\ UNCHANGED <<rec_is_recording, audio_data, audio_stream>>
          ELSE /\ rec_is_recording' = FALSE
               /\ audio_stream' = NoStream
               /\ rec_warnings' =
                     IF audio_data = <<>>
                        THEN [rec_warnings EXCEPT !.no_data = @ + 1]
                        ELSE rec_warnings
               /\ UNCHANGED audio_data

\* AudioRecorder.stop_recording when stop_stream() or close() raises: the
\* except clause returns b"" and the stream handle is kept
RecStopRaises ==
    /\ rec_is_recording
    /\ audio_stream # NoStream
    /\ rec_is_recording' = FALSE
    /\ rec_returned' = EmptyBytes
    /\ UNCHANGED <<audio_data, audio_stream, rec_warnings, volVars>>

\* _audio_callback on a hardware buffer of the started stream: while
\* recording the buffer is stored, its volume computed and passed to the
\* volume callback if one is set; otherwise the buffer is only passed through
AudioCallback(in_data) ==
    /\ audio_stream = "active"
    /\ IF rec_is_recording
          THEN /\ audio_data' = StoreChunk(audio_data, in_data)
               /\ current_volume' = Volume(in_data)
               /\ volume_calls' = IF volume_callback
                                     THEN volume_calls + 1
                                     ELSE volume_calls
               /\ UNCHANGED dropped
          ELSE /\ dropped' = dropped + 1
               /\ UNCHANGED <<audio_data, current_volume, volume_calls>>
    /\ UNCHANGED <<rec_is_recording, audio_stream, rec_warnings,
                   rec_returned, volume_callback>>
    /\ UNCHANGED <<hkVars, appVars, rtVars>>

\* AudioRecorder.set_volume_callback
SetVolumeCallback ==
    /\ ~volume_callback
    /\ volume_callback' = TRUE
    /\ UNCHANGED <<rec_is_recording, audio_data, audio_stream, rec_warnings,
                   rec_returned, current_volume, volume_calls, dropped>>
    /\ UNCHANGED <<hkVars, appVars, rtVars>>

(***************************************************************************)
(* SpeechTideApp: state                                                    *)
(***************************************************************************)
HkThreadIds == 1..MaxHkThreads

\* raw responses of the transcription endpoint, as sequences of characters
Responses == { <<" ">>, <<" ", "o", "k">> }

RECURSIVE LStrip(_)
LStrip(str) ==
    IF str = <<>> THEN <<>>
    ELSE IF Head(str) = " " THEN LStrip(Tail(str)) ELSE str

RECURSIVE RStrip(_)
RStrip(str) ==
    IF str = <<>> THEN <<>>
    ELSE IF str[Len(str)] = " " THEN RStrip(SubSeq(str, 1, Len(str) - 1)) ELSE str

\* str.strip()
Strip(str) == RStrip(LStrip(str))

MainIdle == [pc |-> "idle", op |-> "none"]
NoThread == "none"

\* threading.Thread(target=self._process_audio, args=(audio_data,))
NewProc(audio) ==
    [pc |-> "begin", audio |-> audio, transcription |-> <<>>,
     failed |-> "no", logged |-> <<>>, delivered |-> <<>>,
     inserted |-> "no", notified |-> 0]

\* the _process_audio requests that have not finished
InFlight == {p \in DOMAIN procs : procs[p].pc # "done"}

\* the controller is Transcribing: a request is running and it is not recording
Transcribing == InFlight # {} /\ ~is_recording

\* SpeechTideApp.__init__, AudioRecorder.__init__
AppInit ==
    /\ is_recording = FALSE
    /\ is_transcribing = FALSE
    /\ pending_start_recording = FALSE
    /\ pending_stop_recording = FALSE
    /\ pending_set_transcribing = FALSE
    /\ pending_clear_transcribing = FALSE
    /\ api_key_valid \in BOOLEAN
    /\ main = MainIdle
    /\ hk_threads = [t \in HkThreadIds |-> NoThread]
    /\ procs = <<>>
    /\ counts = [start_recording |-> 0, stop_recording |-> 0, alert |-> 0,
                 recordings |-> 0, warn_start |-> 0, warn_stop |-> 0]
    /\ rec_warnings = [in_progress |-> 0, no_recording |-> 0, no_data |-> 0]
    /\ activations = 0
    /\ overtaken = [start |-> FALSE, stop |-> FALSE]
    /\ rec_is_recording = FALSE
    /\ audio_data = <<>>
    /\ audio_stream = NoStream
    /\ rec_returned = EmptyBytes
    /\ current_volume = VolumeOf(0)
    /\ volume_callback = FALSE
    /\ volume_calls = 0
    /\ dropped = 0

(***************************************************************************)
(* SpeechTideApp: the main thread (UI timer and menu callbacks)            *)
(***************************************************************************)
flagVars == <<pending_start_recording, pending_stop_recording,
              pending_set_transcribing, pending_clear_transcribing>>

\* where a start/stop body returns to: the rest of the timer callback, or the
\* end of the menu callback
Return(op) == IF op = "tick"
                 THEN [pc |-> "tick_set_check", op |-> "tick"]
                 ELSE MainIdle

\* line 72: the timer callback tests the start request
TickWantsStart == pending_start_recording /\ ~is_recording

\* line 75: the timer callback tests the stop request
TickWantsStop == pending_stop_recording /\ is_recording

\* a start body without its early return
StartIgnored_Never == FALSE

\* the early return of _start_recording / _start_recording_main_thread
StartIgnored == is_recording

\* a stop body without its early return
StopIgnored_Never == FALSE

\* the early return of _stop_recording / _stop_recording_main_thread
StopIgnored == ~is_recording

\* a start body that never asks for the API key
StartRejected_Never == FALSE

\* lines 101 and 324: not self.config_manager.validate_api_key()
StartRejected == ~api_key_valid

\* _start_recording and _start_recording_main_thread up to the call of
\* audio_recorder.start_recording(): the two early returns, or
\* is_recording = True
StartBody(op) ==
    IF StartIgnored
       THEN /\ main' = Return(op)
            /\ counts' = [counts EXCEPT !.warn_start = @ + 1]
            /\ UNCHANGED is_recording
       ELSE IF StartRejected
               THEN /\ main' = Return(op)
                    /\ counts' = [counts EXCEPT !.alert = @ + 1]
                    /\ UNCHANGED is_recording
               ELSE /\ is_recording' = TRUE
                    /\ main' = [pc |-> "start_rec", op |-> op]
                    /\ UNCHANGED counts

\* a stop body that leaves is_recording as it is
RecordingAfterStop_Kept == is_recording

\* lines 127 and 350: the value the stop body stores in is_recording
RecordingAfterStop == FALSE

\* _stop_recording and _stop_recording_main_thread: the early return, or
\* is_recording = False, audio_recorder.stop_recording() and the start of the
\* _process_audio thread on what it returned
StopBody(op, raises) ==
    IF StopIgnored
       THEN /\ ~raises
            /\ main' = Return(op)
            /\ counts' = [counts EXCEPT !.warn_stop = @ + 1]
            /\ UNCHANGED <<is_recording, procs, recVars>>
       ELSE /\ is_recording' = RecordingAfterStop
            /\ IF raises
                  THEN /\ RecStopRaises
                       /\ procs' = Append(procs, NewProc(EmptyBytes))
                  ELSE /\ RecStopOk
                       /\ procs' = Append(procs, NewProc(RecStopOkResult))
            /\ counts' = [counts EXCEPT !.stop_recording = @ + 1]
            /\ main' = Return(op)

\* the requests pending when a start or stop body changes is_recording were
\* set before that change: a start request once a recording has started or
\* stopped, a stop request once the recording it was made for has stopped;
\* a request written or cleared afterwards is a new one
OvertakenAfter(recording) ==
    IF recording = is_recording
       THEN overtaken
       ELSE IF recording
               THEN [overtaken EXCEPT !.start = pending_start_recording]
               ELSE [start |-> pending_start_recording,
                     stop |-> pending_stop_recording]

\* _process_pending_ui_operations, lines 72 and 75: which request, if any,
\* the callback serves
TickDispatch ==
    /\ main.pc = "idle"
    /\ main' = [pc |-> IF TickWantsStart THEN "tick_start_clear"
                       ELSE IF TickWantsStop THEN "tick_stop_clear"
                       ELSE "tick_set_check",
                op |-> "tick"]
    /\ UNCHANGED <<is_recording, is_transcribing, flagVars, api_key_valid,
                   hk_threads, procs, counts, activations, overtaken>>
    /\ UNCHANGED <<hkVars, recVars, rtVars>>

\* _process_pending_ui_operations, lines 73-74
TickStart ==
    /\ main.pc = "tick_start_clear"
    /\ pending_start_recording' = FALSE
    /\ overtaken' = [overtaken EXCEPT !.start = FALSE]
    /\ StartBody("tick")
    /\ UNCHANGED <<is_transcribing, pending_stop_recording,
                   pending_set_transcribing, pending_clear_transcribing,
                   api_key_valid, hk_threads, procs, activations>>
    /\ UNCHANGED <<hkVars, recVars, rtVars>>

\* _process_pending_ui_operations, lines 76-77
TickStop(raises) ==
    /\ main.pc = "tick_stop_clear"
    /\ pending_stop_recording' = FALSE
    /\ StopBody("tick", raises)
    /\ overtaken' = [OvertakenAfter(is_recording') EXCEPT !.stop = FALSE]
    /\ UNCHANGED <<is_transcribing, pending_start_recording,
                   pending_set_transcribing, pending_clear_transcribing,
                   api_key_valid, hk_threads, activations>>
    /\ UNCHANGED <<hkVars, rtVars>>

\* _process_pending_ui_operations, line 79
TickSetCheck ==
    /\ main.pc = "tick_set_check"
    /\ main' = [main EXCEPT !.pc = IF pending_set_transcribing
                                      THEN "tick_set_apply"
                                      ELSE "tick_clear_check"]
    /\ UNCHANGED <<is_recording, is_transcribing, flagVars, api_key_valid,
                   hk_threads, procs, counts, activations, overtaken>>
    /\ UNCHANGED <<hkVars, recVars, rtVars>>

\* _process_pending_ui_operations, lines 80-83
TickSetApply ==
    /\ main.pc = "tick_set_apply"
    /\ pending_set_transcribing' = FALSE
    /\ is_transcribing' = TRUE
    /\ main' = [main EXCEPT !.pc = "tick_clear_check"]
    /\ UNCHANGED <<is_recording, pending_start_recording,
                   pending_stop_recording, pending_clear_transcribing,
                   api_key_valid, hk_threads, procs, counts, activations, overtaken>>
    /\ UNCHANGED <<hkVars, recVars, rtVars>>

\* _process_pending_ui_operations, line 85
TickClearCheck ==
    /\ main.pc = "tick_clear_check"
    /\ main' = IF pending_clear_transcribing
                  THEN [main EXCEPT !.pc = "tick_clear_apply"]
                  ELSE MainIdle
    /\ UNCHANGED <<is_recording, is_transcribing, flagVars, api_key_valid,
                   hk_threads, procs, counts, activations, overtaken>>
    /\ UNCHANGED <<hkVars, recVars, rtVars>>

\* _process_pending_ui_operations, lines 86-89
TickClearApply ==
    /\ main.pc = "tick_clear_apply"
    /\ pending_clear_transcribing' = FALSE
    /\ is_transcribing' = FALSE
    /\ main' = MainIdle
    /\ UNCHANGED <<is_recording, pending_start_recording,
                   pending_stop_recording, pending_set_transcribing,
                   api_key_valid, hk_threads, procs, counts, activations, overtaken>>
    /\ UNCHANGED <<hkVars, recVars, rtVars>>

\* the rest of the start body: audio_recorder.start_recording() returns
StartRecOk ==
    /\ main.pc = "start_rec"
    /\ RecStartOk
    /\ counts' = [counts EXCEPT !.start_recording = @ + 1,
                                !.recordings = @ + 1]
    /\ main' = Return(main.op)
    /\ UNCHANGED <<is_recording, is_transcribing, flagVars, api_key_valid,
                   hk_threads, procs, activations, overtaken>>
    /\ UNCHANGED <<hkVars, rtVars>>

\* an except clause that leaves is_recording as the start body set it
RecordingAfterStartError_Kept == is_recording

\* lines 116 and 339: the value the except clause stores in is_recording
RecordingAfterStartError == FALSE

\* the rest of the start body: audio_recorder.start_recording() raises and
\* the except clause resets is_recording and alerts
StartRecFail(where) ==
    /\ main.pc = "start_rec"
    /\ RecStartRaises(where)
    /\ is_recording' = RecordingAfterStartError
    /\ counts' = [counts EXCEPT !.start_recording = @ + 1, !.alert = @ + 1]
    /\ main' = Return(main.op)
    /\ UNCHANGED <<is_transcribing, flagVars, api_key_valid, hk_threads,
                   procs, activations, overtaken>>
    /\ UNCHANGED <<hkVars, rtVars>>

\* _toggle_recording, the menu callback
ToggleRecording(raises) ==
    /\ main.pc = "idle"
    /\ activations < MaxActivations
    /\ activations' = activations + 1
    /\ IF is_recording
          THEN StopBody("menu", raises)
          ELSE /\ ~raises
               /\ StartBody("menu")
               /\ UNCHANGED <<procs, recVars>>
    /\ overtaken' = OvertakenAfter(is_recording')
    /\ UNCHANGED <<is_transcribing, flagVars, api_key_valid, hk_threads>>
    /\ UNCHANGED <<hkVars, rtVars>>

\* _start_recording called directly on the main thread
StartRecordingCall ==
    /\ main.pc = "idle"
    /\ activations < MaxActivations
    /\ activations' = activations + 1
    /\ StartBody("menu")
    /\ overtaken' = OvertakenAfter(is_recording')
    /\ UNCHANGED <<is_transcribing, flagVars, api_key_valid, hk_threads,
                   procs>>
    /\ UNCHANGED <<hkVars, recVars, rtVars>>

\* _stop_recording called directly on the main thread
StopRecordingCall(raises) ==
    /\ main.pc = "idle"
    /\ activations < MaxActivations
    /\ activations' = activations + 1
    /\ StopBody("menu", raises)
    /\ overtaken' = OvertakenAfter(is_recording')
    /\ UNCHANGED <<is_transcribing, flagVars, api_key_valid, hk_threads>>
    /\ UNCHANGED <<hkVars, rtVars>>

\* AudioRecorder.start_recording called directly on the main thread
RecorderStartCall ==
    /\ main.pc = "idle"
    /\ activations < MaxActivations
    /\ activations' = activations + 1
    /\ UNCHANGED overtaken
    /\ RecStartOk
    /\ UNCHANGED <<is_recording, is_transcribing, flagVars, api_key_valid,
                   main, hk_threads, procs, counts>>
    /\ UNCHANGED <<hkVars, rtVars>>

\* AudioRecorder.start_recording called directly and raising to its caller
RecorderStartFail(where) ==
    /\ main.pc = "idle"
    /\ activations < MaxActivations
    /\ activations' = activations + 1
    /\ UNCHANGED overtaken
    /\ RecStartRaises(where)
    /\ UNCHANGED <<is_recording, is_transcribing, flagVars, api_key_valid,
                   main, hk_threads, procs, counts>>
    /\ UNCHANGED <<hkVars, rtVars>>

\* AudioRecorder.stop_recording called directly on the main thread
RecorderStopCall(raises) ==
    /\ main.pc = "idle"
    /\ activations < MaxActivations
    /\ activations' = activations + 1
    /\ UNCHANGED overtaken
    /\ IF raises THEN RecStopRaises ELSE RecStopOk
    /\ UNCHANGED <<is_recording, is_transcribing, flagVars, api_key_valid,
                   main, hk_threads, procs, counts>>
    /\ UNCHANGED <<hkVars, rtVars>>

\* _configure_api_key saving a non-empty key
ConfigureApiKey ==
    /\ main.pc = "idle"
    /\ ~api_key_valid
    /\ api_key_valid' = TRUE
    /\ UNCHANGED <<is_recording, is_transcribing, flagVars, main, hk_threads,
                   procs, counts, activations, overtaken>>
    /\ UNCHANGED <<hkVars, recVars, rtVars>>

(***************************************************************************)
(* SpeechTideApp: the _handle_hotkey callback threads                      *)
(***************************************************************************)
FreeThreads == {t \in HkThreadIds : hk_threads[t] = NoThread}

\* line 298: the branch _handle_hotkey takes on the value of is_recording
HotkeyRequestsStop == is_recording

\* _trigger_hotkey starts a thread that runs _handle_hotkey
HotkeyActivate ==
    /\ activations < MaxActivations
    /\ activations' = activations + 1
    /\ UNCHANGED overtaken
    /\ FreeThreads # {}
    /\ LET t == CHOOSE x \in FreeThreads : \A y \in FreeThreads : x <= y
       IN hk_threads' = [hk_threads EXCEPT ![t] = "read"]
    /\ UNCHANGED <<is_recording, is_transcribing, flagVars, api_key_valid,
                   main, procs, counts>>
    /\ UNCHANGED <<hkVars, recVars, rtVars>>

\* _handle_hotkey, line 298
HkRead(t) ==
    /\ hk_threads[t] = "read"
    /\ hk_threads' = [hk_threads EXCEPT
                         ![t] = IF HotkeyRequestsStop THEN "stop1" ELSE "start1"]
    /\ UNCHANGED <<is_recording, is_transcribing, flagVars, api_key_valid,
                   main, procs, counts, activations, overtaken>>
    /\ UNCHANGED <<hkVars, recVars, rtVars>>

\* _handle_hotkey, line 300
HkStop1(t) ==
    /\ hk_threads[t] = "stop1"
    /\ pending_stop_recording' = TRUE
    /\ overtaken' = [overtaken EXCEPT !.stop = FALSE]
    /\ hk_threads' = [hk_threads EXCEPT ![t] = "stop2"]
    /\ UNCHANGED <<is_recording, is_transcribing, pending_start_recording,
                   pending_set_transcribing, pending_clear_transcribing,
                   api_key_valid, main, procs, counts, activations>>
    /\ UNCHANGED <<hkVars, recVars, rtVars>>

\* _handle_hotkey, line 301
HkStop2(t) ==
    /\ hk_threads[t] = "stop2"
    /\ pending_start_recording' = FALSE
    /\ overtaken' = [overtaken EXCEPT !.start = FALSE]
    /\ hk_threads' = [hk_threads EXCEPT ![t] = NoThread]
    /\ UNCHANGED <<is_recording, is_transcribing, pending_stop_recording,
                   pending_set_transcribing, pending_clear_transcribing,
                   api_key_valid, main, procs, counts, activations>>
    /\ UNCHANGED <<hkVars, recVars, rtVars>>

\* _handle_hotkey, line 304
HkStart1(t) ==
    /\ hk_threads[t] = "start1"
    /\ pending_start_recording' = TRUE
    /\ overtaken' = [overtaken EXCEPT !.start = FALSE]
    /\ hk_threads' = [hk_threads EXCEPT ![t] = "start2"]
    /\ UNCHANGED <<is_recording, is_transcribing, pending_stop_recording,
                   pending_set_transcribing, pending_clear_transcribing,
                   api_key_valid, main, procs, counts, activations>>
    /\ UNCHANGED <<hkVars, recVars, rtVars>>

\* a start request that leaves the stop request as it is
StopRequestAfterStart_Kept == pending_stop_recording

\* line 305: the value a start request stores in _pending_stop_recording
StopRequestAfterStart == FALSE

\* _handle_hotkey, line 305
HkStart2(t) ==
    /\ hk_threads[t] = "start2"
    /\ pending_stop_recording' = StopRequestAfterStart
    /\ overtaken' = [overtaken EXCEPT !.stop = FALSE]
    /\ hk_threads' = [hk_threads EXCEPT ![t] = NoThread]
    /\ UNCHANGED <<is_recording, is_transcribing, pending_start_recording,
                   pending_set_transcribing, pending_clear_transcribing,
                   api_key_valid, main, procs, counts, activations>>
    /\ UNCHANGED <<hkVars, recVars, rtVars>>

(***************************************************************************)
(* SpeechTideApp: the _process_audio threads                               *)
(***************************************************************************)
procFrame == <<is_recording, is_transcribing, pending_start_recording,
               pending_stop_recording, api_key_valid, main, hk_threads,
               counts, activations, overtaken>>

\* line 395: the transcription is worth delivering
HasText(transcription) == transcription # <<>> /\ Strip(transcription) # <<>>

\* _process_audio, line 381
PaBegin(p) ==
    /\ procs[p].pc = "begin"
    /\ pending_set_transcribing' = TRUE
    /\ procs' = [procs EXCEPT ![p].pc = "transcribe"]
    /\ UNCHANGED <<procFrame, pending_clear_transcribing>>
    /\ UNCHANGED <<hkVars, recVars, rtVars>>

\* _process_audio, lines 389-393: transcribe_audio returns the stripped text
PaTranscribeOk(p, response) ==
    /\ procs[p].pc = "transcribe"
    /\ procs' = [procs EXCEPT ![p].pc = "deliver",
                              ![p].transcription = Strip(response)]
    /\ UNCHANGED <<procFrame, pending_set_transcribing,
                   pending_clear_transcribing>>
    /\ UNCHANGED <<hkVars, recVars, rtVars>>

\* _process_audio, lines 389-393 and 410-414: transcribe_audio raises and
\* the except clause shows the error notification
PaTranscribeRaises(p) ==
    /\ procs[p].pc = "transcribe"
    /\ procs' = [procs EXCEPT ![p].pc = "finally",
                              ![p].failed = "transcribe",
                              ![p].notified = @ + 1]
    /\ UNCHANGED <<procFrame, pending_set_transcribing,
                   pending_clear_transcribing>>
    /\ UNCHANGED <<hkVars, recVars, rtVars>>

\* _process_audio, lines 395-406: log_interaction, then insert_text, which
\* returns True, or False when the clipboard cannot be set; its result is
\* dropped
PaDeliver(p, ok) ==
    /\ procs[p].pc = "deliver"
    /\ HasText(procs[p].transcription)
    /\ procs' = [procs EXCEPT
                    ![p].pc = "finally",
                    ![p].logged = Append(@, procs[p].transcription),
                    ![p].delivered = Append(@, procs[p].transcription),
                    ![p].inserted = IF ok THEN "ok" ELSE "failed"]
    /\ UNCHANGED <<procFrame, pending_set_transcribing,
                   pending_clear_transcribing>>
    /\ UNCHANGED <<hkVars, recVars, rtVars>>

\* _process_audio, lines 395-403 and 410-414: log_interaction raises while
\* saving the audio file, before the interaction is recorded; insert_text is
\* skipped and the except clause shows the error notification
PaLogRaises(p) ==
    /\ procs[p].pc = "deliver"
    /\ HasText(procs[p].transcription)
    /\ procs' = [procs EXCEPT ![p].pc = "finally",
                              ![p].failed = "log",
                              ![p].notified = @ + 1]
    /\ UNCHANGED <<procFrame, pending_set_transcribing,
                   pending_clear_transcribing>>
    /\ UNCHANGED <<hkVars, recVars, rtVars>>

\* _process_audio, lines 407-408: no transcription result
PaNoResult(p) ==
    /\ procs[p].pc = "deliver"
    /\ ~HasText(procs[p].transcription)
    /\ procs' = [procs EXCEPT ![p].pc = "finally"]
    /\ UNCHANGED <<procFrame, pending_set_transcribing,
                   pending_clear_transcribing>>
    /\ UNCHANGED <<hkVars, recVars, rtVars>>

\* a finally clause that clears the indicator itself
TranscribingAfterFinally_Cleared == FALSE

\* lines 415-417: the finally clause only writes the request flag, so
\* is_transcribing keeps its value
TranscribingAfterFinally == is_transcribing

\* _process_audio, lines 415-417
PaFinally(p) ==
    /\ procs[p].pc = "finally"
    /\ pending_clear_transcribing' = TRUE
    /\ is_transcribing' = TranscribingAfterFinally
    /\ procs' = [procs EXCEPT ![p].pc = "done"]
    /\ UNCHANGED <<is_recording, pending_start_recording,
                   pending_stop_recording, pending_set_transcribing,
                   api_key_valid, main, hk_threads, counts, activations,
                   overtaken>>
    /\ UNCHANGED <<hkVars, recVars, rtVars>>

(***************************************************************************)
(* RealtimeSessionManager and the realtime session of OpenAIClient         *)
(***************************************************************************)
NoSession == 0
NoField == "<absent>"

\* dict.get(key, default) on a field of a decoded message
GetField(value, default) == IF value = NoField THEN default ELSE value

\* base64.b64encode(audio_chunk).decode('utf-8')
B64(audio_chunk) == <<"b64", audio_chunk>>

\* the session.update message of _send_session_config
SessionConfig == [type |-> "session.update", audio |-> <<>>]

\* the message send_audio_data sends for a chunk
AppendMessage(audio_chunk) ==
    [type |-> "input_audio_buffer.append", audio |-> B64(audio_chunk)]

\* decoded inbound messages
InboundMessage(type, transcript, delta, message) ==
    [type |-> type, item_id |-> "item_1", transcript |-> transcript,
     delta |-> delta, message |-> message]

\* the same message about another conversation item
OfItem(item_id, data) == [data EXCEPT !.item_id = item_id]

DeltaMessage(text) ==
    InboundMessage("response.audio_transcript.delta", NoField, text, NoField)
DoneMessage(text) ==
    InboundMessage("response.audio_transcript.done", text, NoField, NoField)
CompletedMessage(text) ==
    InboundMessage("conversation.item.input_audio_transcription.completed",
                   text, NoField, NoField)
FailedMessage(message) ==
    InboundMessage("conversation.item.input_audio_transcription.failed",
                   NoField, NoField, message)
ErrorMessage(message) == InboundMessage("error", NoField, NoField, message)
SpeechStartedMessage ==
    InboundMessage("input_audio_buffer.speech_started", NoField, NoField, NoField)

\* the message sequences the service sends in a run, over all connections
InboundScripts ==
    { <<DeltaMessage("he"), DeltaMessage("hello"), DoneMessage("hello")>>,
      <<FailedMessage("bad audio"), DeltaMessage("he"), DoneMessage("he")>>,
      <<ErrorMessage("rate limit"), CompletedMessage("hello"),
        FailedMessage(NoField)>>,
      <<SpeechStartedMessage, DoneMessage("hello"), ErrorMessage(NoField)>>,
      <<DoneMessage("hello"), OfItem("item_2", DeltaMessage("hi")),
        DeltaMessage("he")>> }

\* a call of on_transcript(text, is_final) or of on_error(text)
TranscriptCall(text, is_final) ==
    [kind |-> "transcript", text |-> text, is_final |-> is_final]
ErrorCall(text) == [kind |-> "error", text |-> text, is_final |-> FALSE]

\* a final transcript reported as one more partial
DoneCalls_NotFinal(data) ==
    <<TranscriptCall(GetField(data.transcript, ""), FALSE)>>

\* _process_realtime_message, lines 222-225
DoneCalls(data) == <<TranscriptCall(GetField(data.transcript, ""), TRUE)>>

\* a failed transcription that is not reported
FailedCalls_Silent(data) == <<>>

\* _process_realtime_message, lines 212-215
FailedCalls(data) ==
    <<ErrorCall(GetField(data.message, "Transcription failed"))>>

\* _process_realtime_message: the callbacks it makes for a decoded message
MessageCalls(data) ==
    CASE data.type = "conversation.item.input_audio_transcription.completed"
            -> <<TranscriptCall(GetField(data.transcript, ""), FALSE)>>
      [] data.type = "conversation.item.input_audio_transcription.failed"
            -> FailedCalls(data)
      [] data.type = "response.audio_transcript.delta"
            -> <<TranscriptCall(GetField(data.delta, ""), FALSE)>>
      [] data.type = "response.audio_transcript.done"
            -> DoneCalls(data)
      [] data.type = "error"
            -> <<ErrorCall(GetField(data.message, "Unknown error"))>>
      [] OTHER -> <<>>

\* threading.Thread(target=self._run_session_loop): the thread, its
\* connection, the coroutines queued on its event loop, the messages sent on
\* its connection, and whether stop_session has returned for its session
NewSessionThread ==
    [pc |-> "new", ws |-> "none", tasks |-> <<>>, sent |-> <<>>,
     stopped |-> FALSE]

\* the event loop of session thread i is running and reaches an await: while
\* the handshake is pending and while the next message is awaited
LoopRunning(i) == rt_threads[i].pc \in {"connect", "recv"}

\* RealtimeSessionManager.__init__, OpenAIClient.__init__
RtInit ==
    /\ rt_is_active = FALSE
    /\ callbacks_set = FALSE
    /\ current_transcript = ""
    /\ rt_loop = NoSession
    /\ rt_threads = <<>>
    /\ realtime_connected = FALSE
    /\ realtime_websocket = NoSession
    /\ received = <<>>
    /\ callbacks = <<>>
    /\ fed = <<>>
    /\ rt_counts = [calls |-> 0, client_stop |-> 0, stop_errors |-> 0,
                    escaped |-> 0, warn_active |-> 0]

\* the early return of start_session
StartSessionIgnored == rt_is_active

\* RealtimeSessionManager.start_session
StartSession ==
    /\ rt_counts.calls < MaxRtCalls
    /\ IF StartSessionIgnored
          THEN /\ rt_counts' = [rt_counts EXCEPT !.calls = @ + 1,
                                                 !.warn_active = @ + 1]
               /\ UNCHANGED <<rt_is_active, callbacks_set, rt_threads>>
          ELSE /\ Len(rt_threads) < MaxSessions
               /\ callbacks_set' = TRUE
               /\ rt_is_active' = TRUE
               /\ rt_threads' = Append(rt_threads, NewSessionThread)
               /\ rt_counts' = [rt_counts EXCEPT !.calls = @ + 1]
    /\ UNCHANGED <<current_transcript, rt_loop, realtime_connected,
                   realtime_websocket, received, callbacks, fed>>
    /\ UNCHANGED <<hkVars, appVars, recVars>>

\* asyncio.create_task called from a thread that runs no event loop raises
\* RuntimeError
CreateTaskException(on_loop) ==
    IF realtime_websocket # NoSession /\ ~on_loop THEN "RuntimeError" ELSE "none"

\* except Exception, line 272
ExceptExceptionCatches(exc) == exc \in {"Exception", "RuntimeError"}

\* errors the except clause of stop_realtime_session logs
StopErrors(on_loop) ==
    LET exc == CreateTaskException(on_loop)
    IN IF exc # "none" /\ ExceptExceptionCatches(exc) THEN 1 ELSE 0

\* exceptions that leave stop_realtime_session
StopEscapes(on_loop) ==
    LET exc == CreateTaskException(on_loop)
    IN IF exc # "none" /\ ~ExceptExceptionCatches(exc) THEN 1 ELSE 0

\* OpenAIClient.stop_realtime_session: realtime_task is never assigned, so
\* nothing is cancelled; the close() of the connection is scheduled only when
\* the caller runs on an event loop
ClientStop(on_loop, threads) ==
    /\ realtime_connected' = FALSE
    /\ rt_threads' =
          IF /\ on_loop
             /\ realtime_websocket # NoSession
             /\ threads[realtime_websocket].ws = "open"
             THEN [threads EXCEPT ![realtime_websocket].ws = "closing"]
             ELSE threads

\* the caller of a stop runs inside a callback of a session loop thread
OnLoopPossible == \E i \in DOMAIN rt_threads : rt_threads[i].pc = "recv"

\* a stop_session without its early return
StopSessionIgnored_Never == FALSE

\* the early return of stop_session
StopSessionIgnored == ~rt_is_active

\* RealtimeSessionManager.stop_session
StopSession(on_loop) ==
    /\ rt_counts.calls < MaxRtCalls
    /\ on_loop => OnLoopPossible
    /\ IF StopSessionIgnored
          THEN /\ rt_counts' = [rt_counts EXCEPT !.calls = @ + 1]
               /\ UNCHANGED <<rt_is_active, realtime_connected, rt_threads>>
          ELSE /\ rt_is_active' = FALSE
               /\ ClientStop(on_loop,
                     [rt_threads EXCEPT ![Len(rt_threads)].stopped = TRUE])
               /\ rt_counts' = [rt_counts EXCEPT
                                   !.calls = @ + 1,
                                   !.client_stop = @ + 1,
                                   !.stop_errors = @ + StopErrors(on_loop),
                                   !.escaped = @ + StopEscapes(on_loop)]
    /\ UNCHANGED <<callbacks_set, current_transcript, rt_loop,
                   realtime_websocket, received, callbacks, fed>>
    /\ UNCHANGED <<hkVars, appVars, recVars>>

\* OpenAIClient.stop_realtime_session called directly
StopRealtimeSessionCall(on_loop) ==
    /\ rt_counts.calls < MaxRtCalls
    /\ on_loop => OnLoopPossible
    /\ ClientStop(on_loop, rt_threads)
    /\ rt_counts' = [rt_counts EXCEPT !.calls = @ + 1,
                                      !.client_stop = @ + 1,
                                      !.stop_errors = @ + StopErrors(on_loop),
                                   !.escaped = @ + StopEscapes(on_loop)]
    /\ UNCHANGED <<rt_is_active, callbacks_set, current_transcript, rt_loop,
                   realtime_websocket, received, callbacks, fed>>
    /\ UNCHANGED <<hkVars, appVars, recVars>>

\* send_audio queues the coroutine only on an active session with a loop
SendAudioAccepted == rt_is_active /\ rt_loop # NoSession

\* RealtimeSessionManager.send_audio; the k-th call passes chunk k
SendAudio ==
    /\ Len(fed) < MaxFeeds
    /\ LET audio_data_in == Len(fed) + 1
           session == IF rt_is_active THEN Len(rt_threads) ELSE NoSession
       IN /\ fed' = Append(fed,
                       [chunk |-> audio_data_in,
                        session |-> session,
                        phase |-> IF session = NoSession THEN "none"
                                  ELSE rt_threads[session].pc])
          /\ rt_threads' =
                IF SendAudioAccepted
                   THEN [rt_threads EXCEPT
                            ![rt_loop].tasks = Append(@, audio_data_in)]
                   ELSE rt_threads
    /\ UNCHANGED <<rt_is_active, callbacks_set, current_transcript, rt_loop,
                   realtime_connected, realtime_websocket, received,
                   callbacks, rt_counts>>
    /\ UNCHANGED <<hkVars, appVars, recVars>>

\* the calls the caller's callbacks receive from session thread i for the
\* message with index ev: _handle_transcript and _handle_error forward a
\* call when the callback is set
Forwarded(calls, i, ev) ==
    IF callbacks_set
       THEN [k \in DOMAIN calls |->
                [kind |-> calls[k].kind, text |-> calls[k].text,
                 is_final |-> calls[k].is_final, session |-> i, ev |-> ev]]
       ELSE <<>>

\* _handle_transcript, lines 435-438
TranscriptAfter(calls, transcript) ==
    LET ts == {k \in DOMAIN calls : calls[k].kind = "transcript"}
    IN IF ts = {} THEN transcript
       ELSE calls[CHOOSE k \in ts : \A j \in ts : j <= k].text

rtLoopFrame == <<callbacks_set, fed, rt_counts>>

\* _run_session_loop, lines 411-412
LoopBegin(i) ==
    /\ rt_threads[i].pc = "new"
    /\ rt_loop' = i
    /\ rt_threads' = [rt_threads EXCEPT ![i].pc = "connect"]
    /\ UNCHANGED <<rt_is_active, current_transcript, realtime_connected,
                   realtime_websocket, received, callbacks, rtLoopFrame>>
    /\ UNCHANGED <<hkVars, appVars, recVars>>

\* start_realtime_session, lines 137-143: the connection opens and the
\* client publishes it
Connect(i) ==
    /\ rt_threads[i].pc = "connect"
    /\ realtime_websocket' = i
    /\ realtime_connected' = TRUE
    /\ rt_threads' = [rt_threads EXCEPT ![i].pc = "config",
                                        ![i].ws = "open"]
    /\ UNCHANGED <<rt_is_active, current_transcript, rt_loop, received,
                   callbacks, rtLoopFrame>>
    /\ UNCHANGED <<hkVars, appVars, recVars>>

\* the configuration messages _send_session_config sends
ConfigMessages == <<SessionConfig>>

\* start_realtime_session, line 146, and _send_session_config: the session
\* configuration is written to the connection without an await in between
SendSessionConfig(i) ==
    /\ rt_threads[i].pc = "config"
    /\ rt_threads' = [rt_threads EXCEPT ![i].pc = "recv",
                                        ![i].sent = @ \o ConfigMessages]
    /\ UNCHANGED <<rt_is_active, current_transcript, rt_loop,
                   realtime_connected, realtime_websocket, received,
                   callbacks, rtLoopFrame>>
    /\ UNCHANGED <<hkVars, appVars, recVars>>

\* start_realtime_session, lines 137 and 152-155: websockets.connect raises
ConnectFail(i) ==
    /\ rt_threads[i].pc = "connect"
    /\ realtime_connected' = FALSE
    /\ callbacks' = callbacks \o
          Forwarded(<<ErrorCall("Real-time connection failed")>>, i, 0)
    /\ rt_threads' = [rt_threads EXCEPT ![i].pc = "exit"]
    /\ UNCHANGED <<rt_is_active, current_transcript, rt_loop,
                   realtime_websocket, received, rtLoopFrame>>
    /\ UNCHANGED <<hkVars, appVars, recVars>>

\* the messages that can arrive next: those continuing a script
NextMessages ==
    LET n == Len(received)
    IN {sc[n + 1] : sc \in {x \in InboundScripts :
                               /\ Len(x) > n
                               /\ \A k \in 1..n : x[k] = received[k].data}}

\* start_realtime_session, lines 149-150: one message of the connection is
\* received and processed
RecvMessage(i, message) ==
    /\ rt_threads[i].pc = "recv"
    /\ rt_threads[i].ws \in {"open", "closing"}
    /\ Len(received) < MaxMessages
    /\ LET ev == Len(received) + 1
           calls == MessageCalls(message)
       IN /\ received' = Append(received, [session |-> i, data |-> message,
                                           stopped |-> rt_threads[i].stopped])
          /\ callbacks' = callbacks \o Forwarded(calls, i, ev)
          /\ current_transcript' = TranscriptAfter(calls, current_transcript)
    /\ UNCHANGED <<rt_is_active, rt_loop, rt_threads, realtime_connected,
                   realtime_websocket, rtLoopFrame>>
    /\ UNCHANGED <<hkVars, appVars, recVars>>

\* start_realtime_session, line 149: the server closes the connection and
\* the async for ends; realtime_connected is left as it is
ServerClose(i) ==
    /\ rt_threads[i].pc = "recv"
    /\ rt_threads[i].ws = "open"
    /\ rt_threads' = [rt_threads EXCEPT ![i].pc = "exit", ![i].ws = "closed"]
    /\ UNCHANGED <<rt_is_active, current_transcript, rt_loop,
                   realtime_connected, realtime_websocket, received,
                   callbacks, rtLoopFrame>>
    /\ UNCHANGED <<hkVars, appVars, recVars>>

\* start_realtime_session, line 149: the close() scheduled by
\* stop_realtime_session completes and the async for ends
ClientClose(i) ==
    /\ rt_threads[i].pc = "recv"
    /\ rt_threads[i].ws = "closing"
    /\ rt_threads' = [rt_threads EXCEPT ![i].pc = "exit", ![i].ws = "closed"]
    /\ UNCHANGED <<rt_is_active, current_transcript, rt_loop,
                   realtime_connected, realtime_websocket, received,
                   callbacks, rtLoopFrame>>
    /\ UNCHANGED <<hkVars, appVars, recVars>>

\* start_realtime_session, lines 149 and 152-155: the connection breaks
ConnectionLost(i) ==
    /\ rt_threads[i].pc = "recv"
    /\ rt_threads[i].ws \in {"open", "closing"}
    /\ realtime_connected' = FALSE
    /\ callbacks' = callbacks \o
          Forwarded(<<ErrorCall("Real-time connection failed")>>, i, 0)
    /\ rt_threads' = [rt_threads EXCEPT ![i].pc = "exit", ![i].ws = "closed"]
    /\ UNCHANGED <<rt_is_active, current_transcript, rt_loop,
                   realtime_websocket, received, rtLoopFrame>>
    /\ UNCHANGED <<hkVars, appVars, recVars>>

\* _run_session_loop, lines 425-426
LoopExit(i) ==
    /\ rt_threads[i].pc = "exit"
    /\ rt_is_active' = FALSE
    /\ rt_threads' = [rt_threads EXCEPT ![i].pc = "done"]
    /\ UNCHANGED <<current_transcript, rt_loop, realtime_connected,
                   realtime_websocket, received, callbacks, rtLoopFrame>>
    /\ UNCHANGED <<hkVars, appVars, recVars>>

\* send_audio_data sends only on a connected client
SendAudioDataSends == realtime_connected /\ realtime_websocket # NoSession

\* send_audio_data, run by the event loop of session thread i when that
\* thread awaits
RunSendAudioData(i) ==
    /\ LoopRunning(i)
    /\ rt_threads[i].tasks # <<>>
    /\ LET audio_chunk == Head(rt_threads[i].tasks)
           popped == [rt_threads EXCEPT ![i].tasks = Tail(@)]
       IN rt_threads' =
             IF SendAudioDataSends /\ popped[realtime_websocket].ws = "open"
                THEN [popped EXCEPT ![realtime_websocket].sent =
                                       Append(@, AppendMessage(audio_chunk))]
                ELSE popped
    /\ UNCHANGED <<rt_is_active, current_transcript, rt_loop,
                   realtime_connected, realtime_websocket, received,
                   callbacks, rtLoopFrame>>
    /\ UNCHANGED <<hkVars, appVars, recVars>>

\* the session loop threads without the messages and the queued coroutines
SessionLoop ==
    \E i \in DOMAIN rt_threads :
        \/ LoopBegin(i)
        \/ Connect(i)
        \/ SendSessionConfig(i)
        \/ ConnectFail(i)
        \/ ServerClose(i)
        \/ ClientClose(i)
        \/ ConnectionLost(i)
        \/ LoopExit(i)

Receive ==
    \E i \in DOMAIN rt_threads :
        \E message \in NextMessages : RecvMessage(i, message)

RunQueued == \E i \in DOMAIN rt_threads : RunSendAudioData(i)

\* sessions started and stopped, by the manager and on the client directly
RtNext ==
    \/ StartSession
    \/ \E on_loop \in BOOLEAN : StopSession(on_loop)
    \/ \E on_loop \in BOOLEAN : StopRealtimeSessionCall(on_loop)
    \/ SessionLoop

\* sessions receiving messages
StreamNext ==
    \/ StartSession
    \/ \E on_loop \in BOOLEAN : StopSession(on_loop)
    \/ SessionLoop
    \/ Receive

\* sessions fed with audio
FeedNext ==
    \/ StartSession
    \/ StopSession(FALSE)
    \/ SendAudio
    \/ SessionLoop
    \/ RunQueued

(***************************************************************************)
(* Specifications                                                          *)
(***************************************************************************)
Init == HkInit /\ AppInit /\ RtInit

\* the application as main.py builds it: the hotkey is the one the
\* configuration names
InitApp == Init /\ primary_key_name = "right_cmd"

\* the application started with an API key in the configuration
InitConfigured == InitApp /\ api_key_valid = TRUE

\* a HotkeyManager built for any key name
InitHotkey == Init /\ api_key_valid = TRUE

Tick ==
    \/ TickDispatch
    \/ TickStart
    \/ TickStop(FALSE)
    \/ TickSetCheck
    \/ TickSetApply
    \/ TickClearCheck
    \/ TickClearApply

HotkeyThread ==
    \E t \in HkThreadIds :
        \/ HkRead(t)
        \/ HkStop1(t)
        \/ HkStop2(t)
        \/ HkStart1(t)
        \/ HkStart2(t)

ProcessAudio ==
    \E p \in DOMAIN procs :
        \/ PaBegin(p)
        \/ \E response \in Responses : PaTranscribeOk(p, response)
        \/ PaTranscribeRaises(p)
        \/ \E ok \in BOOLEAN : PaDeliver(p, ok)
        \/ PaLogRaises(p)
        \/ PaNoResult(p)
        \/ PaFinally(p)

\* the buffers of a recording of the running application
Capture ==
    \E in_data \in Chunks :
        /\ rec_is_recording
        /\ Len(audio_data) < MaxChunks
        /\ AudioCallback(in_data)

\* the buffers a started stream delivers, while recording or not
CaptureAny ==
    \E in_data \in HardwareBuffers :
        /\ IF rec_is_recording
              THEN Len(audio_data) < MaxBuffers
              ELSE dropped < MaxBuffers
        /\ AudioCallback(in_data)

DeviceFailure ==
    \/ \E where \in {"open", "start_stream"} : StartRecFail(where)
    \/ TickStop(TRUE)
    \/ ToggleRecording(TRUE)
    \/ StopRecordingCall(TRUE)

\* hotkey activations served by the callback threads and the UI timer, the
\* worker threads and the audio callback
ClickNext ==
    \/ HotkeyActivate
    \/ HotkeyThread
    \/ Tick
    \/ StartRecOk
    \/ ProcessAudio
    \/ Capture

\* the running application: hotkey activations and the menu callback
Next ==
    \/ ClickNext
    \/ ToggleRecording(FALSE)

\* the start and stop requests of the application, from the hotkey, the
\* menu and direct calls as the repository's test scripts make them, and the
\* recorder called directly; the worker threads are started and not
\* followed, as they touch neither is_recording nor the recorder
CallsNext ==
    \/ HotkeyActivate
    \/ HotkeyThread
    \/ TickDispatch
    \/ TickStart
    \/ TickStop(FALSE)
    \/ TickSetCheck
    \/ TickClearCheck
    \/ StartRecOk
    \/ Capture
    \/ ToggleRecording(FALSE)
    \/ StartRecordingCall
    \/ StopRecordingCall(FALSE)
    \/ RecorderStartCall

\* the start and stop requests with a microphone whose stream can fail to
\* open, to start and to stop
DeviceNext ==
    \/ CallsNext
    \/ DeviceFailure

\* the start and stop requests of an application that may have no API key
NoKeyNext ==
    \/ HotkeyActivate
    \/ HotkeyThread
    \/ TickDispatch
    \/ TickStart
    \/ TickStop(FALSE)
    \/ TickSetCheck
    \/ TickClearCheck
    \/ StartRecOk
    \/ Capture
    \/ ToggleRecording(FALSE)
    \/ StartRecordingCall
    \/ StopRecordingCall(FALSE)
    \/ ConfigureApiKey

\* the start and stop requests of the controller, with or without an API
\* key, on a microphone whose stream can fail to open, to start and to stop
ControllerNext ==
    \/ NoKeyNext
    \/ DeviceFailure

\* the callback threads of a few hotkey presses, the UI timer that serves
\* them and the worker threads of the recordings they stop
ThreadsNext ==
    \/ activations < MaxPresses /\ HotkeyActivate
    \/ HotkeyThread
    \/ Tick
    \/ StartRecOk
    \/ Capture
    \/ ProcessAudio

\* direct calls of the recorder and its audio callback
RecorderNext ==
    \/ RecorderStartCall
    \/ \E where \in {"open", "start_stream"} : RecorderStartFail(where)
    \/ \E raises \in BOOLEAN : RecorderStopCall(raises)
    \/ CaptureAny
    \/ SetVolumeCallback

\* the application with a missing API key and failing audio devices
FaultyNext ==
    \/ CallsNext
    \/ Tick
    \/ ProcessAudio
    \/ ConfigureApiKey
    \/ DeviceFailure

\* the application with a configured API key and a healthy microphone
Spec == InitConfigured /\ [][Next]_vars

\* the same, activated by the hotkey only
SpecClick == InitConfigured /\ [][ClickNext]_vars

SpecCalls == InitConfigured /\ [][CallsNext]_vars

SpecFaulty == InitApp /\ [][FaultyNext]_vars

SpecDevice == InitConfigured /\ [][DeviceNext]_vars

SpecNoKey == InitApp /\ [][NoKeyNext]_vars

SpecThreads == InitConfigured /\ [][ThreadsNext]_vars

SpecUpdate == InitHotkey /\ [][UpdateNext]_vars

SpecController == InitApp /\ [][ControllerNext]_vars

\* an AudioRecorder called directly, with a stream that can fail to stop
SpecRecorder == InitConfigured /\ [][RecorderNext]_vars

\* the listener callbacks of HotkeyManager on their own
SpecHotkey == InitHotkey /\ [][HkNext]_vars

\* a RealtimeSessionManager and its OpenAIClient on their own
SpecRealtime == InitConfigured /\ [][RtNext]_vars

SpecStream == InitConfigured /\ [][StreamNext]_vars

SpecFeed == InitConfigured /\ [][FeedNext]_vars

(***************************************************************************)
(* Properties of the hotkey state machine                                  *)
(***************************************************************************)
\* the on_hotkey threads the handler of event i started
TriggersOf(i) == {j \in DOMAIN dispatched : dispatched[j].ev = i}

ConfiguredPresses ==
    {i \in DOMAIN events : events[i].kind = "press" /\ events[i].configured}

HoldThresholdReached(e) == e.held * HoldThresholdDen >= HoldThresholdNum

\* C2: in click mode every press event of the configured key dispatches
\* exactly one on_hotkey trigger, and a release or an event of another key
\* dispatches none; so over a click-mode sequence the number of triggers
\* equals the number of press events of the configured key.
C2_ClickOneTriggerPerPress ==
    /\ \A i \in DOMAIN events :
          events[i].mode = "click" =>
             Cardinality(TriggersOf(i)) =
                IF i \in ConfiguredPresses THEN 1 ELSE 0
    /\ (\A i \in DOMAIN events : events[i].mode = "click") =>
          Len(dispatched) = Cardinality(ConfiguredPresses)

\* a click-mode run with a repeated press of the configured key (the key is
\* held), its release, and one trigger per press
C2_Witness ==
    /\ Len(events) = 3
    /\ \A i \in DOMAIN events : events[i].mode = "click"
    /\ events[1].kind = "press" /\ events[1].configured
    /\ events[2].kind = "press" /\ events[2].configured
    /\ events[3].kind = "release" /\ events[3].configured
    /\ Len(dispatched) = 2

C11_ShortHoldReleaseEmitsNothing ==
    \A i \in DOMAIN events :
        ( /\ events[i].kind = "release" /\ events[i].configured
          /\ events[i].mode = "hold" /\ events[i].timed
          /\ ~HoldThresholdReached(events[i]) )
        => TriggersOf(i) = {}

\* a hold-mode press and its release with a computed duration below the
\* threshold, and nothing dispatched
C11_Witness ==
    /\ Len(events) >= 2
    /\ 1 \in ConfiguredPresses /\ events[1].mode = "hold"
    /\ events[2].kind = "release" /\ events[2].configured
    /\ events[2].mode = "hold" /\ events[2].timed
    /\ ~HoldThresholdReached(events[2])
    /\ dispatched = <<>>

\* the hold-mode taps: a press of the configured key directly followed by
\* its release, with a computed hold duration below the threshold
HoldTaps ==
    {i \in DOMAIN events :
        /\ i > 1
        /\ (i - 1) \in ConfiguredPresses /\ events[i - 1].mode = "hold"
        /\ events[i].kind = "release" /\ events[i].configured
        /\ events[i].mode = "hold" /\ events[i].timed
        /\ ~HoldThresholdReached(events[i])}

\* C12: a hold-mode tap of the configured key dispatches exactly one
\* trigger to on_hotkey.
C12_HoldTapActivatesOnce ==
    \A i \in HoldTaps : Cardinality(TriggersOf(i - 1) \cup TriggersOf(i)) = 1

\* a call of update_hotkeys with a name that is not recognised
C40_UnknownKeyStep ==
    \A new_key \in UpdateNames :
        (~KnownKeyName(new_key) /\ UpdateHotkeys(new_key))
           => /\ UNCHANGED <<primary_key, primary_key_name>>
              /\ is_running' = is_running
              /\ is_running => listener' \in Idents

\* C40: update_hotkeys with an unrecognised key name leaves the configured
\* key as it was and a running manager running, with a live listener.
C40_UnknownKeyLeavesManager == [][C40_UnknownKeyStep]_vars

\* a call of start in which the listener cannot be established
C25_StartFailStep ==
    (\E where \in {"Listener", "start"} : StartFail(where))
       => (~is_running' /\ start_raised')

\* C25: when the key listener cannot be established, HotkeyManager.start
\* raises to its caller and leaves is_running False; and the manager is
\* marked as running only while it holds a listener whose thread runs.
C25_StartFailsFast ==
    /\ [][C25_StartFailStep]_vars
    /\ [](is_running => listener \in Idents)

\* a start that raised when the listener thread could not be started
C25_Witness ==
    /\ start_raised
    /\ ~is_running
    /\ listener = DeadListener

(***************************************************************************)
(* Properties of the recording controller                                  *)
(***************************************************************************)
\* every hotkey callback has returned and the UI timer has served every
\* start/stop request
Settled ==
    /\ main.pc = "idle"
    /\ \A t \in HkThreadIds : hk_threads[t] = NoThread
    /\ ~TickWantsStart
    /\ ~TickWantsStop

\* every _process_audio has finished and the UI timer has served every
\* indicator request
IndicatorServed ==
    /\ InFlight = {}
    /\ main.pc = "idle"
    /\ ~pending_set_transcribing
    /\ ~pending_clear_transcribing

\* C1: once k hotkey activations have been handled (callbacks returned,
\* requests served by the UI timer) the controller is recording exactly when
\* k is odd.
C1_RecordingIffOddActivations ==
    Settled => (is_recording <=> activations % 2 = 1)

\* C3: at most one _process_audio request is in flight.
C3_SingleFlight == Cardinality(InFlight) <= 1

\* C4: while the controller is Transcribing, neither the menu toggle nor the
\* start request of a hotkey activation served by the UI timer starts a
\* recording.
C4_NoStartWhileTranscribing ==
    [][ (Transcribing /\ (ToggleRecording(FALSE) \/ TickStart))
           => (~is_recording' /\ main'.pc # "start_rec") ]_vars

\* C6: once every _process_audio has finished and the UI timer has served
\* every indicator request, the transcribing indicator is off.
C6_IndicatorClearedAfterLastRequest == IndicatorServed => ~is_transcribing

\* C7: a request whose transcription returned non-empty text T has, once it
\* is past delivery, handed T to text delivery exactly once and logged
\* exactly one interaction with T.
C7_TextDeliveredAndLoggedOnce ==
    \A p \in DOMAIN procs :
        ( /\ procs[p].pc \in {"finally", "done"}
          /\ procs[p].failed # "transcribe"
          /\ HasText(procs[p].transcription) )
        => /\ procs[p].delivered = <<procs[p].transcription>>
           /\ procs[p].logged = <<procs[p].transcription>>

\* C8: a request whose transcribe_audio raised has shown exactly one error
\* notification, delivered no text and logged no interaction, and once it is
\* the last request and the UI timer has served it the controller is Idle.
C8_TranscribeFailureReturnsToIdle ==
    \A p \in DOMAIN procs :
        (procs[p].failed = "transcribe" /\ procs[p].pc = "done")
        => /\ procs[p].notified = 1
           /\ procs[p].delivered = <<>>
           /\ procs[p].logged = <<>>
           /\ (IndicatorServed /\ Settled /\ counts.recordings = Len(procs))
                 => (~is_recording /\ ~is_transcribing)

\* a step of a start request made while is_recording is set, or of
\* AudioRecorder.start_recording called while the recorder records
C5_RedundantStartStep ==
    /\ (is_recording /\ (StartRecordingCall \/ TickStart))
          => /\ is_recording'
             /\ main'.pc # "start_rec"
             /\ counts'.start_recording = counts.start_recording
             /\ UNCHANGED <<rec_is_recording, audio_data, audio_stream>>
    /\ (rec_is_recording /\ (RecorderStartCall \/ StartRecOk))
          => UNCHANGED <<rec_is_recording, audio_data, audio_stream>>

\* C5: a start request made while already recording leaves is_recording set
\* and does not call AudioRecorder.start_recording; AudioRecorder
\* .start_recording called while the recorder records leaves the buffered
\* chunks and the stream unchanged and cannot raise.
C5_RedundantStartChangesNothing ==
    /\ [][C5_RedundantStartStep]_vars
    /\ [](rec_is_recording =>
             ~ENABLED (\E where \in {"open", "start_stream"} :
                          RecStartRaises(where)))

\* a recording with a buffered chunk during which _start_recording was
\* called again and AudioRecorder.start_recording was called on the
\* recording recorder
C5_Witness ==
    /\ is_recording /\ rec_is_recording
    /\ counts.warn_start >= 1
    /\ rec_warnings.in_progress >= 1
    /\ Len(audio_data) = 1
    /\ audio_stream = "active"

\* a step of a stop request
C9_StopStep ==
    LET stop == \/ StopRecordingCall(FALSE)
                \/ TickStop(FALSE)
                \/ (is_recording /\ ToggleRecording(FALSE))
    IN /\ (is_recording /\ stop)
             => /\ ~is_recording'
                /\ counts'.stop_recording = counts.stop_recording + 1
                /\ Len(procs') = Len(procs) + 1
       /\ (~is_recording /\ stop)
             => /\ UNCHANGED <<is_recording, procs, recVars>>
                /\ counts'.stop_recording = counts.stop_recording

\* outside the start body, every recording but the running one has been
\* stopped once and handed to one _process_audio
C9_Dispatched ==
    main.pc # "start_rec" =>
        /\ counts.stop_recording = Len(procs)
        /\ counts.recordings = Len(procs) + (IF is_recording THEN 1 ELSE 0)

\* C9: a stop request while recording calls AudioRecorder.stop_recording
\* once and starts exactly one _process_audio; a stop request while not
\* recording calls nothing and starts nothing; so each recording is
\* dispatched exactly once.
C9_OneDispatchPerRecording == []C9_Dispatched /\ [][C9_StopStep]_vars

\* one recording, stopped and dispatched once, and a second stop request
\* that was ignored
C9_Witness ==
    /\ ~is_recording
    /\ counts.recordings = 1
    /\ counts.stop_recording = 1
    /\ Len(procs) = 1
    /\ counts.warn_stop >= 1

\* the requests that finished with an empty transcription
NoSpeech ==
    {p \in DOMAIN procs :
        /\ procs[p].pc = "done"
        /\ procs[p].failed = "no"
        /\ ~HasText(procs[p].transcription)}

\* C23: a request whose transcription came back empty has shown no error
\* notification, delivered no text and logged no interaction, and once it
\* is the last request and the UI timer has served it the controller is
\* Idle.
C23_EmptyTranscriptIsNoSpeech ==
    \A p \in NoSpeech :
        /\ procs[p].notified = 0
        /\ procs[p].delivered = <<>>
        /\ procs[p].logged = <<>>
        /\ (IndicatorServed /\ Settled /\ counts.recordings = Len(procs))
              => (~is_recording /\ ~is_transcribing)

\* C24: a request whose insert_text returned False has, once it is past
\* delivery, shown a notification to the user.
C24_FailedInsertNotifies ==
    \A p \in DOMAIN procs :
        (procs[p].inserted = "failed" /\ procs[p].pc \in {"finally", "done"})
        => procs[p].notified >= 1

\* the _process_audio threads started on an empty audio buffer
EmptyRecordings == {p \in DOMAIN procs : procs[p].audio = EmptyBytes}

\* C39: for a recording that gave an empty audio buffer transcribe_audio is
\* not called (it has neither returned nor raised) and no error notification
\* is shown.
C39_EmptyAudioNotTranscribed ==
    \A p \in EmptyRecordings :
        /\ procs[p].pc # "deliver"
        /\ procs[p].failed # "transcribe"
        /\ procs[p].notified = 0

\* a step of a _handle_hotkey callback thread or of a _process_audio thread
C38_ThreadStep ==
    /\ HotkeyThread
          => UNCHANGED <<is_recording, is_transcribing,
                         pending_set_transcribing, pending_clear_transcribing,
                         main, counts, recVars>>
    /\ ProcessAudio
          => UNCHANGED <<is_recording, is_transcribing,
                         pending_start_recording, pending_stop_recording,
                         main, counts, recVars>>

\* C38: the callback threads and the worker threads never write
\* is_recording or is_transcribing; a callback thread writes only the
\* start and stop requests, a worker only the two indicator requests.
C38_StateWrittenByMainThreadOnly == [][C38_ThreadStep]_vars

\* a callback thread has requested a start and one a stop, both were
\* served, and the worker of the recording has finished and asked for the
\* indicator to be cleared
C38_Witness ==
    /\ counts.recordings = 1
    /\ counts.stop_recording = 1
    /\ procs # <<>>
    /\ procs[1].pc = "done"
    /\ pending_clear_transcribing
    /\ is_transcribing

\* C32: a request whose log_interaction raised for a non-empty transcript
\* has still handed the transcript to text delivery exactly once and has
\* shown no error notification.
C32_LoggingFailureIsSilent ==
    \A p \in DOMAIN procs :
        (procs[p].failed = "log" /\ procs[p].pc \in {"finally", "done"})
        => /\ procs[p].delivered = <<procs[p].transcription>>
           /\ procs[p].notified = 0

\* a step of the UI timer that starts or stops a recording
C33_TimerStep ==
    /\ (TickStart /\ ~is_recording /\ is_recording') => ~overtaken.start
    /\ ((\E raises \in BOOLEAN : TickStop(raises)) /\ is_recording /\ ~is_recording')
          => ~overtaken.stop

\* C33: the UI timer starts a recording only on a start request written
\* after the last stop and after the last start made from the menu, and
\* stops one only on a stop request written after the last stop made from
\* the menu.
C33_NoSpontaneousRecording == [][C33_TimerStep]_vars

\* no _handle_hotkey callback is executing
NoCallbackRunning == \A t \in HkThreadIds : hk_threads[t] = NoThread

\* C34: whenever no _handle_hotkey callback is executing, the start request
\* and the stop request are not both pending.
C34_RequestsExclusive ==
    NoCallbackRunning => ~(pending_start_recording /\ pending_stop_recording)

\* every callback has returned, a recording was stopped and a later one is
\* running with a start request still pending
C34_Witness ==
    /\ NoCallbackRunning
    /\ pending_start_recording
    /\ is_recording
    /\ counts.stop_recording >= 1
    /\ activations >= 3

\* C35: whenever the main thread is not between setting is_recording and
\* the return of audio_recorder.start_recording(), the controller's
\* is_recording equals the recorder's.
C35_ControllerAgreesWithRecorder ==
    main.pc # "start_rec" => (is_recording <=> rec_is_recording)

\* after a start rejected for the missing API key, a start that failed in
\* the device and a recording whose stop failed to halt the stream, neither
\* the controller nor the recorder records
C35_Witness ==
    /\ main = MainIdle
    /\ counts.alert = 2
    /\ counts.start_recording = 2
    /\ counts.recordings = 1
    /\ counts.stop_recording = 1
    /\ audio_stream = "active"
    /\ ~is_recording
    /\ ~rec_is_recording

\* a step in which audio_recorder.start_recording() raises into the start
\* body of the controller
C21_StartFailStep ==
    (\E where \in {"open", "start_stream"} : StartRecFail(where))
       => /\ ~is_recording'
          /\ ~rec_is_recording'
          /\ counts'.alert = counts.alert + 1
          /\ counts'.recordings = counts.recordings

\* C21: when opening or starting the microphone stream fails,
\* AudioRecorder.start_recording raises into the controller, whose except
\* clause alerts and leaves is_recording False in the controller and in
\* the recorder; and outside the start body the controller is recording
\* only while the recorder is.
C21_DeviceFailureLeavesIdle ==
    /\ [][C21_StartFailStep]_vars
    /\ []((is_recording /\ main.pc # "start_rec") => rec_is_recording)

\* a start request whose stream failed to open: the alert was shown, no
\* recording was counted and neither object records
C21_Witness ==
    /\ main.pc = "idle"
    /\ counts.start_recording = 1
    /\ counts.alert = 1
    /\ counts.recordings = 0
    /\ ~is_recording /\ ~rec_is_recording
    /\ audio_stream = NoStream

\* a start request served while no API key is configured
C22_RejectedStartStep ==
    ( /\ ~api_key_valid /\ ~is_recording
      /\ (TickStart \/ StartRecordingCall \/ ToggleRecording(FALSE)) )
       => /\ ~is_recording'
          /\ main'.pc # "start_rec"
          /\ counts'.start_recording = counts.start_recording
          /\ counts'.alert = counts.alert + 1
          /\ UNCHANGED recVars
          /\ TickStart => ~pending_start_recording'

\* C22: a start request served while no API key is configured shows the
\* alert, leaves is_recording False and does not call
\* AudioRecorder.start_recording; the timer clears the request before it
\* serves it, so each activation is rejected at most once; and nothing
\* records while the key is missing.
C22_NoKeyNoRecording ==
    /\ [][C22_RejectedStartStep]_vars
    /\ [](~api_key_valid =>
             /\ ~is_recording /\ ~rec_is_recording
             /\ counts.start_recording = 0
             /\ counts.alert <= activations)

\* one activation without an API key, rejected once, after which the timer
\* finds no request to serve
C22_Witness ==
    /\ ~api_key_valid
    /\ activations = 1
    /\ counts.alert = 1
    /\ Settled
    /\ ~pending_start_recording
    /\ ~is_recording

(***************************************************************************)
(* Properties of the realtime session                                      *)
(***************************************************************************)
\* C13: a stop_session on an active session leaves no connection of the
\* manager open: the connection is closed, or its close is under way, when
\* stop_session returns.
C13_StopClosesConnection ==
    [][ (rt_is_active /\ \E on_loop \in BOOLEAN : StopSession(on_loop))
           => \A i \in DOMAIN rt_threads : rt_threads'[i].ws # "open" ]_vars

\* C14: no callback is made for a message received on a session's
\* connection after stop_session has returned for that session.
C14_NoCallbackAfterStop ==
    \A k \in DOMAIN callbacks :
        callbacks[k].ev # 0 => ~received[callbacks[k].ev].stopped

\* the send_audio calls made on a started session before its connection was
\* open and configured
EarlyFeeds ==
    {k \in DOMAIN fed :
        fed[k].session # NoSession /\ fed[k].phase \in {"new", "connect", "config"}}

\* a send_audio_data coroutine for the chunk waits on some event loop
Queued(audio_chunk) ==
    \E i \in DOMAIN rt_threads :
        \E j \in DOMAIN rt_threads[i].tasks : rt_threads[i].tasks[j] = audio_chunk

\* the positions at which the chunk's append message was sent on session s
SentAt(s, audio_chunk) ==
    {j \in DOMAIN rt_threads[s].sent :
        rt_threads[s].sent[j] = AppendMessage(audio_chunk)}

\* C15: a chunk passed to send_audio before the session's connection is
\* configured is, once the connection is open and configured, either still
\* buffered or sent on it as an input_audio_buffer.append message, and the
\* chunks are sent in the order fed.
C15_EarlyAudioBufferedThenSent ==
    \A k \in EarlyFeeds :
        LET s == fed[k].session
        IN (rt_threads[s].ws = "open" /\ ~rt_threads[s].stopped)
              => /\ Queued(fed[k].chunk) \/ SentAt(s, fed[k].chunk) # {}
                 /\ \A h \in EarlyFeeds :
                       (h < k /\ fed[h].session = s)
                          => \A a \in SentAt(s, fed[h].chunk) :
                                \A b \in SentAt(s, fed[k].chunk) : a < b

\* the inbound message carries a partial transcript, a final transcript
IsPartial(data) ==
    data.type \in {"response.audio_transcript.delta",
                   "conversation.item.input_audio_transcription.completed"}
IsFinal(data) == data.type = "response.audio_transcript.done"

\* the text a transcript message carries
TextOf(data) ==
    IF data.type = "response.audio_transcript.delta"
       THEN data.delta ELSE data.transcript

\* the callbacks made for the message with index ev
CallsFor(ev) == {k \in DOMAIN callbacks : callbacks[k].ev = ev}

\* C16: every received transcript message has produced exactly one
\* on_transcript callback, with the message's text, is_final false for a
\* partial and true for a final transcript, and the callbacks follow the
\* order in which their messages were received.
C16_TranscriptsInOrder ==
    /\ \A ev \in DOMAIN received :
          (IsPartial(received[ev].data) \/ IsFinal(received[ev].data))
             => /\ Cardinality(CallsFor(ev)) = 1
                /\ \A k \in CallsFor(ev) :
                      /\ callbacks[k].kind = "transcript"
                      /\ callbacks[k].text = TextOf(received[ev].data)
                      /\ callbacks[k].is_final = IsFinal(received[ev].data)
                      /\ callbacks[k].session = received[ev].session
    /\ \A j \in DOMAIN callbacks : \A k \in DOMAIN callbacks :
          (j < k /\ callbacks[j].ev # 0 /\ callbacks[k].ev # 0)
             => callbacks[j].ev < callbacks[k].ev

\* partial "he", partial "hello" and final "hello" received on one session,
\* with two non-final callbacks followed by one final callback
C16_Witness ==
    /\ Len(received) = 3
    /\ received[1].data = DeltaMessage("he")
    /\ received[2].data = DeltaMessage("hello")
    /\ received[3].data = DoneMessage("hello")
    /\ \A ev \in DOMAIN received : received[ev].session = 1
    /\ Len(callbacks) = 3
    /\ callbacks[1].text = "he" /\ ~callbacks[1].is_final
    /\ callbacks[2].text = "hello" /\ ~callbacks[2].is_final
    /\ callbacks[3].text = "hello" /\ callbacks[3].is_final

\* C17: after a message of type "error" was received on a session, that
\* session's connection is closed or closing and the manager is not active
\* on it.
C17_ProtocolErrorEndsSession ==
    \A ev \in DOMAIN received :
        received[ev].data.type = "error"
           => /\ CallsFor(ev) # {}
              /\ rt_threads[received[ev].session].ws \in {"closing", "closed"}
              /\ received[ev].session = Len(rt_threads) => ~rt_is_active

IsFailed(data) ==
    data.type = "conversation.item.input_audio_transcription.failed"

\* every received transcription_failed message has produced exactly one
\* on_error callback, carrying the service's message when it has one, and
\* the messages received after it on the same session were processed
C18_FailedReported ==
    \A ev \in DOMAIN received :
        IsFailed(received[ev].data)
           => /\ Cardinality(CallsFor(ev)) = 1
              /\ \A k \in CallsFor(ev) :
                    /\ callbacks[k].kind = "error"
                    /\ received[ev].data.message # NoField
                          => callbacks[k].text = received[ev].data.message
              /\ \A later \in DOMAIN received :
                    ( /\ later > ev
                      /\ received[later].session = received[ev].session
                      /\ ~received[later].data.type
                             = "input_audio_buffer.speech_started" )
                       => CallsFor(later) # {}

\* a step that receives a transcription_failed message
C18_FailedStep ==
    (\E i \in DOMAIN rt_threads : \E message \in NextMessages :
        IsFailed(message) /\ RecvMessage(i, message))
       => UNCHANGED <<rt_threads, realtime_connected, realtime_websocket,
                      rt_is_active>>

\* C18: a transcription_failed message invokes on_error exactly once with
\* the service-provided message and no transcript callback, and leaves the
\* connection open and the session receiving.
C18_TranscriptionFailedKeepsSession ==
    []C18_FailedReported /\ [][C18_FailedStep]_vars

\* a transcription_failed message reported once, followed on the same
\* session by a partial transcript that was delivered
C18_Witness ==
    /\ Len(received) >= 2
    /\ received[1].data = FailedMessage("bad audio")
    /\ received[2].data = DeltaMessage("he")
    /\ received[2].session = received[1].session
    /\ Len(callbacks) = 2
    /\ callbacks[1].kind = "error" /\ callbacks[1].text = "bad audio"
    /\ callbacks[2].kind = "transcript" /\ callbacks[2].text = "he"
    /\ rt_threads[received[1].session].ws = "open"

\* a stop_session step taken while no session is active
C19_IdleStopStep ==
    (~rt_is_active /\ \E on_loop \in BOOLEAN : StopSession(on_loop))
       => /\ UNCHANGED <<rt_is_active, callbacks_set, current_transcript,
                         rt_loop, rt_threads, realtime_connected,
                         realtime_websocket, received, callbacks, fed>>
          /\ rt_counts'.client_stop = rt_counts.client_stop
          /\ rt_counts'.stop_errors = rt_counts.stop_errors

\* C19: stop_session called while no session is active calls nothing on
\* the client and leaves the manager and the client unchanged, and no
\* exception leaves stop_session or stop_realtime_session in any connection
\* state.
C19_StopSessionIdempotent ==
    [](rt_counts.escaped = 0) /\ [][C19_IdleStopStep]_vars

\* a session started and stopped once, with a further stop_session that
\* found no active session, and the RuntimeError of the stop logged
C19_Witness ==
    /\ rt_counts.calls = 3
    /\ rt_counts.warn_active = 0
    /\ Len(rt_threads) = 1
    /\ rt_threads[1].stopped
    /\ rt_counts.client_stop = 1
    /\ rt_counts.stop_errors = 1
    /\ ~rt_is_active

\* the on_transcript callbacks made for messages about the same
\* conversation item on the same connection
SameUtterance(a, b) ==
    /\ callbacks[a].kind = "transcript" /\ callbacks[b].kind = "transcript"
    /\ callbacks[a].session = callbacks[b].session
    /\ received[callbacks[a].ev].data.item_id =
          received[callbacks[b].ev].data.item_id

\* C28: no on_transcript callback with is_final false follows a callback
\* with is_final true for the same utterance.
C28_NoPartialAfterFinal ==
    \A a \in DOMAIN callbacks : \A b \in DOMAIN callbacks :
        (a < b /\ SameUtterance(a, b) /\ callbacks[a].is_final)
           => callbacks[b].is_final

\* the _run_session_loop threads that have not returned
AliveThreads == {i \in DOMAIN rt_threads : rt_threads[i].pc # "done"}

\* the connections that are open or being closed
LiveConnections ==
    {i \in DOMAIN rt_threads : rt_threads[i].ws \in {"open", "closing"}}

\* C27: at most one session loop thread is alive and at most one streaming
\* connection is open at any time.
C27_OneSessionAtATime ==
    /\ Cardinality(AliveThreads) <= 1
    /\ Cardinality(LiveConnections) <= 1

\* the positions at which a session.update message was sent on connection i
ConfigsSent(i) ==
    {j \in DOMAIN rt_threads[i].sent : rt_threads[i].sent[j] = SessionConfig}

\* C29: on every connection the first message sent is session.update, no
\* second session.update is sent, and a connection that is past its
\* configuration step has sent it: no input_audio_buffer.append precedes it.
C29_ConfigFirstAndOnce ==
    \A i \in DOMAIN rt_threads :
        /\ ConfigsSent(i) \subseteq {1}
        /\ rt_threads[i].sent # <<>> => ConfigsSent(i) = {1}
        /\ rt_threads[i].pc = "recv" => ConfigsSent(i) = {1}

\* the session started last has neither ended nor been stopped
LastSessionRunning ==
    /\ rt_threads # <<>>
    /\ ~rt_threads[Len(rt_threads)].stopped
    /\ rt_threads[Len(rt_threads)].pc \in {"new", "connect", "config", "recv"}

\* C37: a session that has neither ended nor been stopped is active,
\* whatever happens to the loop threads of the sessions before it.
C37_RestartedSessionStaysActive == LastSessionRunning => rt_is_active

(***************************************************************************)
(* Properties of the audio recorder                                        *)
(***************************************************************************)
\* a step of AudioRecorder.stop_recording called directly
C20_StopStep ==
    (\E raises \in BOOLEAN : RecorderStopCall(raises))
       => /\ ~rec_is_recording
             => /\ UNCHANGED <<rec_is_recording, audio_stream, audio_data>>
                /\ rec_returned' = EmptyBytes
          /\ (rec_is_recording /\ audio_data = <<>>)
             => /\ ~rec_is_recording'
                /\ rec_returned' = EmptyBytes
          /\ ~rec_is_recording'

\* C20: stop_recording called when not recording leaves is_recording, the
\* stream handle and the buffer unchanged and returns empty bytes; called on
\* a recording with no captured chunk it ends the recording and returns
\* empty bytes; a failure of the stream inside it is not raised to the
\* caller, who gets empty bytes.
C20_StopRecordingNeverFails ==
    /\ [][C20_StopStep]_vars
    /\ [][(RecorderStopCall(TRUE)) => rec_returned' = EmptyBytes]_vars

\* stop_recording has been called when not recording and on a recording
\* without chunks, and the last call returned empty bytes
C20_Witness ==
    /\ rec_warnings.no_recording >= 1
    /\ rec_warnings.no_data >= 1
    /\ ~rec_is_recording
    /\ rec_returned = EmptyBytes

\* the bytes of one hardware buffer
ChunkBytes == ChunkSize * FrameSize

\* frames is the concatenation of chunks, byte for byte
IsConcatenation(frames, chunks) ==
    /\ Len(frames) = Len(chunks) * ChunkBytes
    /\ \A k \in DOMAIN chunks : \A j \in 1..ChunkBytes :
          frames[(k - 1) * ChunkBytes + j] = chunks[k][j]

\* a step of the recorder: a start empties the buffer, a delivered buffer
\* is put at its end, and a stop returns the container of the buffer
C26_RecorderStep ==
    /\ (RecorderStartCall /\ ~rec_is_recording) => audio_data' = <<>>
    /\ \A in_data \in HardwareBuffers :
          (rec_is_recording /\ AudioCallback(in_data))
             => audio_data' = Append(audio_data, in_data)
    /\ (RecorderStopCall(FALSE) /\ rec_is_recording /\ audio_data # <<>>)
          => /\ IsConcatenation(ReadFrames(rec_returned'), audio_data)
             /\ WavFrames(rec_returned') = Len(audio_data) * ChunkSize
             /\ WavFrameRate(rec_returned') = SampleRate
             /\ WavChannels(rec_returned') = Channels
             /\ WavSampleWidth(rec_returned') = SampleWidth

C30_CallbackStep ==
    \A in_data \in HardwareBuffers :
        AudioCallback(in_data)
           => IF rec_is_recording
                 THEN /\ audio_data' = Append(audio_data, in_data)
                      /\ volume_calls' <= volume_calls + 1
                      /\ volume_calls' =
                            volume_calls + (IF volume_callback THEN 1 ELSE 0)
                      /\ InUnitInterval(current_volume')
                 ELSE UNCHANGED <<audio_data, volume_calls, current_volume>>

\* C30: a buffer delivered while recording is appended to audio_data once
\* and the volume callback, if one is set, is called once with
\* current_volume, which lies in [0.0, 1.0]; a buffer delivered while not
\* recording is neither appended nor reported.
C30_BufferStoredAndReportedOnce ==
    /\ [][C30_CallbackStep]_vars
    /\ []InUnitInterval(current_volume)

\* a recording of two buffers reported to the volume callback, the last
\* one at full scale, after a buffer was delivered to the stopped recorder
C30_Witness ==
    /\ rec_is_recording
    /\ volume_callback
    /\ Len(audio_data) = 2
    /\ volume_calls = 2
    /\ dropped >= 1
    /\ current_volume = VolumeOf(FullScale * FullScale)

\* C31: whenever the recorder is not recording, after a stop_recording and
\* after a failed start_recording alike, audio_data holds no chunk.
C31_BufferOnlyWhileRecording == ~rec_is_recording => audio_data = <<>>

\* C36: whenever the recorder is not recording its stream handle is None,
\* also after a start_recording that failed in start_stream() and after a
\* stop_recording whose stop_stream() or close() failed.
C36_StreamOnlyWhileRecording == ~rec_is_recording => audio_stream = NoStream

====
